---------------------------- MODULE Spec2Model ----------------------------
(***************************************************************************)
(* MapMind game server (src/server.js): the per-connection round lifecycle *)
(* of one WebSocket connection.  Inbound frames, timer callbacks and the   *)
(* transport teardown are the actions; every callback is one atomic step   *)
(* (single-threaded event loop).  Timers of one duration expire in the     *)
(* order they were armed; timers of different durations expire in any      *)
(* order, and inbound frames arrive at arbitrary moments: the model has no *)
(* clock, so it covers every schedule of the event loop, stalled or not.   *)
(*                                                                         *)
(* Numbers: coordinates are integers in millidegrees; angles and the trig  *)
(* values are fixed-point with four decimals (Scale).  Math.random() is a  *)
(* draw in tenths (0..9 stands for 0.0 .. 0.9).                            *)
(***************************************************************************)
EXTENDS Integers, Sequences, FiniteSets, TLC

(***************************************************************************)
(* Bounds of the model.                                                    *)
(***************************************************************************)
\* largest number of records the data file supplies
MaxRecords == 2
\* sessions allocated on the connection (start_game and play_again frames)
MaxSessions == 2
\* rounds the viewer asks for on the connection: start_game frames and
\* accepted next_round frames
MaxRounds == 2
\* records in the data file, where only their number matters
MaxSupply == 13
\* connect() calls of one client Connection
MaxConnects == 9
(***************************************************************************)
(* Program constants.                                                      *)
(***************************************************************************)
TOTAL_ROUNDS == 5
\* fragments in every row of the tables of getAgentReasoning
NumClues == 5
\* Earth radius, km
R == 6371
\* fixed-point scale of angles (radians) and of sin/cos values
Scale == 10000
\* pi and pi/2 in fixed point
PiFix == 31416
HalfPiFix == 15708
\* latitude clamp of makeAIGuess, millidegrees
MaxLat == 85000

\* Object.keys(AGENTS), in enumeration order
AgentOrder == <<"atlas", "nova">>
AgentIds == {"atlas", "nova"}

\* AGENTS[id].spreadRange, degrees
AGENTS ==
  [atlas |-> [id |-> "atlas", spreadRange |-> <<3, 18>>],
   nova  |-> [id |-> "nova",  spreadRange |-> <<5, 22>>]]

\* the null / undefined value of a reference
Null == 0

\* the number NaN: no distance is negative
NaN == -1

(***************************************************************************)
(* Arithmetic helpers: JavaScript numbers are sign-symmetric, so the       *)
(* fixed-point division rounds half away from zero on both sides.          *)
(***************************************************************************)
Abs(x) == IF x < 0 THEN -x ELSE x

Min(a, b) == IF a < b THEN a ELSE b

Max(a, b) == IF a > b THEN a ELSE b

\* Math.round of the quotient a / b (b > 0), symmetric about zero
RoundDiv(a, b) ==
  IF a >= 0 THEN (a + b \div 2) \div b ELSE -((-a + b \div 2) \div b)

\* degrees * Math.PI / 180, from millidegrees to fixed-point radians
ToRad(mdeg) == RoundDiv(mdeg * 1745, 10000) + RoundDiv(mdeg * 33, 1000000)

\* Taylor terms of the sine on [-pi/2, pi/2]: t is the current term
\* x^k / k!, the next one is t * x^2 / ((k+1)(k+2)) with the sign flipped
RECURSIVE SinSeries(_, _, _, _)
SinSeries(x, t, k, acc) ==
  IF k > 11 \/ t = 0 THEN acc
  ELSE LET t1 == RoundDiv(t * x, Scale)
           t2 == RoundDiv(t1 * x, Scale * (k + 1) * (k + 2))
       IN SinSeries(x, -t2, k + 2, acc - t2)

\* Math.sin, argument reduced to [-pi/2, pi/2]
RECURSIVE Sin(_)
Sin(x) ==
  IF x < 0 THEN -Sin(-x)
  ELSE IF x > 2 * PiFix THEN Sin(x - 2 * PiFix)
  ELSE IF x > PiFix THEN -Sin(x - PiFix)
  ELSE IF x > HalfPiFix THEN Sin(PiFix - x)
  ELSE Min(Scale, SinSeries(x, x, 1, x))

\* Math.cos
Cos(x) == Sin(HalfPiFix - Abs(x))

\* Math.sqrt of a value in [0, 1] held with eight decimals (Scale * Scale):
\* the integer square root is the root with four decimals
RECURSIVE SqrtIter(_, _, _)
SqrtIter(n, lo, hi) ==
  IF lo >= hi THEN lo
  ELSE LET mid == (lo + hi + 1) \div 2
       IN IF mid * mid <= n THEN SqrtIter(n, mid, hi) ELSE SqrtIter(n, lo, mid - 1)

Sqrt(v) == SqrtIter(v, 0, Scale)

\* Math.atan2(y, x) for y, x >= 0, not both 0: the angle in [0, pi/2] whose
\* sine and cosine are in the ratio y : x (bisection on sin(t) x - cos(t) y)
RECURSIVE AtanIter(_, _, _, _)
AtanIter(y, x, lo, hi) ==
  IF lo >= hi THEN lo
  ELSE LET mid == (lo + hi) \div 2
       IN IF Sin(mid) * x >= Cos(mid) * y
          THEN AtanIter(y, x, lo, mid)
          ELSE AtanIter(y, x, mid + 1, hi)

Atan2(y, x) == AtanIter(y, x, 0, HalfPiFix)

(***************************************************************************)
(* Scoring: haversineDistance.  Arguments in millidegrees; a is held with  *)
(* eight decimals, the result is km with four decimals.                    *)
(***************************************************************************)
HaversineA(lat1, lng1, lat2, lng2) ==
  LET dLat == ToRad(lat2 - lat1)
      dLng == ToRad(lng2 - lng1)
      s1 == Sin(RoundDiv(dLat, 2))
      s2 == Sin(RoundDiv(dLng, 2))
      cc == RoundDiv(Cos(ToRad(lat1)) * Cos(ToRad(lat2)), Scale)
  IN s1 * s1 + RoundDiv(cc * Abs(s2), Scale) * Abs(s2)

\* R * 2 * atan2(sqrt(a), sqrt(1 - a)), as the fixed-point product R * 2 * angle.
\* Rounding can leave a above 1: Math.sqrt of the negative 1 - a is NaN, and
\* so are the arc tangent and the product.
haversineDistance(lat1, lng1, lat2, lng2) ==
  IF HaversineA(lat1, lng1, lat2, lng2) > Scale * Scale THEN NaN
  ELSE R * 2 * Atan2(Sqrt(HaversineA(lat1, lng1, lat2, lng2)),
                     Sqrt(Scale * Scale - HaversineA(lat1, lng1, lat2, lng2)))

\* Math.round(dist), dist in the fixed-point unit of haversineDistance
MathRound(dist) == IF dist = NaN THEN NaN ELSE RoundDiv(dist, Scale)

(***************************************************************************)
(* Round data: data/sample_rounds.json as read by loadRounds.  A record is *)
(* named by its position in the file; RoundRecord gives its fields.        *)
(***************************************************************************)
SampleLocations ==
  <<[lat |-> 48857, lng |-> 2352],
    [lat |-> 35676, lng |-> 139650],
    [lat |-> -33868, lng |-> 151209],
    [lat |-> 40713, lng |-> -74006]>>

SampleDifficulty == <<"easy", "hard", "medium", "easy">>

RoundRecord(i) ==
  [name |-> i, image_url |-> i,
   location |-> SampleLocations[((i - 1) % Len(SampleLocations)) + 1],
   difficulty |-> SampleDifficulty[((i - 1) % Len(SampleDifficulty)) + 1]]

\* data.sort(() => Math.random() - 0.5): the n records of the file in any order
loadRounds(n) ==
  {r \in [1..n -> 1..n] : \A i, j \in 1..n : r[i] = r[j] => i = j}

(***************************************************************************)
(* Math.random(): the draws of one makeAIGuess call and of the confidence  *)
(* that follows it, in tenths: <<spread, lat, lng, confidence>>.           *)
(***************************************************************************)
RandomDraws == {<<0, 5, 5, 0>>, <<0, 0, 5, 9>>}

\* the guess without Math.max(-85, Math.min(85, ...))
makeAIGuessUnclamped(actual, agentId, draw) ==
  LET min == AGENTS[agentId].spreadRange[1]
      max == AGENTS[agentId].spreadRange[2]
      spread == 1000 * min + 100 * draw[1] * (max - min)
  IN [lat |-> actual.lat + ((draw[2] - 5) * spread) \div 10,
      lng |-> actual.lng + ((draw[3] - 5) * spread * 15) \div 100]

\* makeAIGuess(actual, agentId), millidegrees
makeAIGuess(actual, agentId, draw) ==
  LET min == AGENTS[agentId].spreadRange[1]
      max == AGENTS[agentId].spreadRange[2]
      spread == 1000 * min + 100 * draw[1] * (max - min)
  IN [lat |-> Max(-MaxLat, Min(MaxLat, actual.lat + ((draw[2] - 5) * spread) \div 10)),
      lng |-> actual.lng + ((draw[3] - 5) * spread * 15) \div 100]

\* Math.floor(55 + Math.random() * 35) for atlas, Math.floor(45 + Math.random() * 45) for nova
Confidence(agentId, draw) ==
  IF agentId = "atlas" THEN (550 + draw[4] * 35) \div 10 ELSE (450 + draw[4] * 45) \div 10

(***************************************************************************)
(* State.                                                                  *)
(***************************************************************************)
VARIABLES
  numRecords,  \* the number of records in data/sample_rounds.json
  conn,        \* the socket: "open" (readyState 1) or "closed"
  crashed,     \* an uncaught TypeError left a callback: the process is gone
  session,     \* the closure variable of the connection: a session or Null
  sessions,    \* the session object that session refers to, by identity: a
               \* replaced or discarded object is only ever written, by the
               \* callbacks that captured it, and never read again
  timers,      \* timers[ms]: the pending timers of duration ms, in the order armed
  runs,        \* the closures of the playRound calls: simulateDualAI's locals
  allocs,      \* session objects allocated so far
  asked,       \* rounds asked for so far
  lastEvent,   \* the handler or callback that ran last
  emitted,     \* the frames that handler passed to ws.send, in order
  roundLog,    \* per run: the frames of that round that were sent
  finalized,   \* the round_results frames sent so far
  peer,        \* another connection served by the same process: its socket,
               \* its closure variable session (<<>>: null, <<s>>: the object
               \* s), the frames its last handler sent
  client,      \* the Connection object of one browser page (public/js/app.js)
  call         \* a call of haversineDistance or makeAIGuess made on its own

vars == <<numRecords, conn, crashed, session, sessions, timers, runs, allocs, asked,
          lastEvent, emitted, roundLog, finalized, peer, client, call>>

wsOpen == conn = "open"

\* sendTo without the readyState test
sendToUnguarded(open, message) == <<message>>

\* sendTo(ws, message): the frames actually sent
sendTo(open, message) == IF open THEN <<message>> ELSE <<>>

\* session.currentGuesses = {}: an object with no property
NoGuesses == [a \in {} |-> Null]

\* guesses[agentId] = guess
SetGuess(guesses, agentId, guess) ==
  [a \in DOMAIN guesses \cup {agentId} |-> IF a = agentId THEN guess ELSE guesses[a]]

NewSessionUncapped(rounds) ==
  [rounds |-> rounds,
   currentRound |-> 0,
   totalRounds |-> Len(rounds),
   agentDistances |-> [atlas |-> 0, nova |-> 0],
   roundWins |-> [atlas |-> 0, nova |-> 0],
   currentGuesses |-> NoGuesses,
   pendingRoundData |-> Null]

\* the session object both message handlers allocate
NewSession(rounds) ==
  [rounds |-> rounds,
   currentRound |-> 0,
   totalRounds |-> Min(TOTAL_ROUNDS, Len(rounds)),
   agentDistances |-> [atlas |-> 0, nova |-> 0],
   roundWins |-> [atlas |-> 0, nova |-> 0],
   currentGuesses |-> NoGuesses,
   pendingRoundData |-> Null]

\* the tables with a fragment less in every row
getAgentReasoningShort(agentId, locationName, difficulty) ==
  LET row == IF difficulty \in {"easy", "medium", "hard"} THEN difficulty ELSE "medium"
  IN [k \in 1..(NumClues - 1) |-> <<agentId, row, k, Null>>]

\* getAgentReasoning(agentId, locationName, difficulty): the fragments, named
\* by agent, difficulty of the table row used, position and, for the last
\* fragment of the easy rows, the location name its text is built from
getAgentReasoning(agentId, locationName, difficulty) ==
  LET row == IF difficulty \in {"easy", "medium", "hard"} THEN difficulty ELSE "medium"
  IN [k \in 1..NumClues |->
        <<agentId, row, k, IF row = "easy" /\ k = NumClues THEN locationName ELSE Null>>]

\* the constants atlasClues and novaClues of the simulateDualAI call of run r
Clues(agentId, r) ==
  getAgentReasoning(agentId, RoundRecord(r.roundData).name,
                    RoundRecord(r.roundData).difficulty)

\* the closure of one playRound call: the 500 ms timeout, then simulateDualAI's locals
NewRun(id, sid, roundData) ==
  [id |-> id, sid |-> sid, roundData |-> roundData,
   atlasIdx |-> 0, novaIdx |-> 0, atlasDone |-> FALSE, novaDone |-> FALSE]

\* the identity of a new closure: a number no closure in rs has
FreshId(rs) == CHOOSE id \in 1..(Len(rs) + 1) : \A i \in 1..Len(rs) : rs[i].id # id

\* the delays of the setTimeout and setInterval calls, in milliseconds
Durations == {200, 450, 500, 1000}

NewRoundLog(sid, roundData, round) ==
  [sid |-> sid, roundData |-> roundData, round |-> round,
   terminal |-> [atlas |-> 0, nova |-> 0],
   complete |-> 0, last |-> "",
   guess |-> NoGuesses]

\* neither haversineDistance nor makeAIGuess has been called on its own
NoCall == [op |-> "none", p |-> <<0, 0>>, q |-> <<0, 0>>, r |-> <<0, 0>>, d |-> <<0, 0>>]

\* no second connection has been made
NoPeer == [conn |-> "none", session |-> <<>>, emitted |-> <<>>]

\* new Connection(): the constructor of the client's WebSocket manager.  ws is
\* the state of this.ws ("null" before connect()), timer the pending
\* setTimeout delays; connects, scheduled and failed count, for the record,
\* the connect() calls, the reconnections scheduled since the socket last
\* opened and the reconnections that closed without opening since then.
NewConnection ==
  [ws |-> "null",
   reconnectAttempts |-> 0,
   maxReconnects |-> 5,
   reconnectDelay |-> 1000,
   timer |-> <<>>,
   event |-> "constructor",
   connects |-> 0,
   scheduled |-> 0,
   failed |-> 0]

\* wss.on("connection"): the handler's closure and both ends of the socket
Connected ==
  /\ peer = NoPeer
  /\ client = NewConnection
  /\ call = NoCall
  /\ conn = "open"
  /\ crashed = FALSE
  /\ session = Null
  /\ sessions = [sid \in {} |-> Null]
  /\ timers = [ms \in Durations |-> <<>>]
  /\ runs = <<>>
  /\ allocs = 0
  /\ asked = 0
  /\ lastEvent = "connection"
  /\ emitted = <<>>
  /\ roundLog = <<>>
  /\ finalized = <<>>

Init ==
  /\ numRecords \in 1..MaxRecords
  /\ Connected

(***************************************************************************)
(* Inbound frames: ws.on("message").  JSON.parse either throws or yields a *)
(* value whose type field selects the case.                                *)
(***************************************************************************)
RawFrames ==
  {"{\"type\":\"start_game\"}", "{\"type\":\"request_results\"}",
   "{\"type\":\"next_round\"}", "{\"type\":\"show_scoreboard\"}",
   "{\"type\":\"play_again\"}", "{\"type\":\"pause\"}", "{}", "null",
   "{\"type\":", "hello"}

\* JSON.parse(raw): the type field of the parsed value, "undefined" when the
\* value has none, "null" when the value is null (it has no field to read),
\* "SyntaxError" when parsing throws
JSONParse(raw) ==
  CASE raw = "{\"type\":\"start_game\"}" -> "start_game"
    [] raw = "{\"type\":\"request_results\"}" -> "request_results"
    [] raw = "{\"type\":\"next_round\"}" -> "next_round"
    [] raw = "{\"type\":\"show_scoreboard\"}" -> "show_scoreboard"
    [] raw = "{\"type\":\"play_again\"}" -> "play_again"
    [] raw = "{\"type\":\"pause\"}" -> "pause"
    [] raw = "{}" -> "undefined"
    [] raw = "null" -> "null"
    [] OTHER -> "SyntaxError"

\* a frame can arrive: the socket is open and the process is alive
Receives(raw, type) == wsOpen /\ ~crashed /\ JSONParse(raw) = type

(***************************************************************************)
(* Timers.  The timers of one duration expire in the order they were armed *)
(* (an interval is armed again when its callback returns), so each         *)
(* duration has a queue and only its head can expire.  Nothing orders the  *)
(* heads of different queues: the model leaves out how much time passes.   *)
(***************************************************************************)
\* a pending setTimeout or setInterval: its callback, the playRound closure run
\* it belongs to (0: none), and the count local of a countInterval
Timer(kind, run, count) == [kind |-> kind, run |-> run, count |-> count]

\* setTimeout(callback, ms), setInterval(callback, ms), and an interval armed again
setTimer(t, ms, timer) == [t EXCEPT ![ms] = Append(@, timer)]

\* the head of the queue of ms expires; clearInterval in its callback leaves it out
Expire(t, ms) == [t EXCEPT ![ms] = Tail(@)]

\* the callback kind is the next to expire among the timers of ms
Due(ms, kind) == ~crashed /\ timers[ms] # <<>> /\ Head(timers[ms]).kind = kind

\* the position in runs of the closure the next timer of ms belongs to
RunOf(ms) == CHOOSE i \in 1..Len(runs) : runs[i].id = Head(timers[ms]).run

(***************************************************************************)
(* Game flow.                                                              *)
(***************************************************************************)
\* what every step that is not a throw leaves of the process
Alive == crashed' = FALSE

\* an uncaught TypeError: nothing is sent, the process exits
Throws == crashed' = TRUE /\ emitted' = <<>>

\* a round with a timer pending
LiveRun(t, r) == \E ms \in Durations : \E k \in 1..Len(t[ms]) : t[ms][k].run = r.id

\* the session objects some reference still reaches: the closure variable
\* session, and the session argument captured by a round whose timers are live
Referenced(cur, rs, t) ==
  ({cur} \cup {rs[i].sid : i \in {j \in 1..Len(rs) : LiveRun(t, rs[j])}}) \ {Null}

\* what is left of a sequence of per-session entries once the unreferenced
\* session objects are collected
Keep(entries, keep) == SelectSeq(entries, LAMBDA e : e.sid \in keep)

\* an assignment to fields of the session object sid: lost with the object
\* when nothing can read it any more
Write(sid, s) == [x \in DOMAIN sessions |-> IF x = sid THEN s ELSE sessions[x]]

\* playRound with the increment taken twice
NextIndexSkips(currentRound) == currentRound + 2

\* playRound without the increment
NextIndexStuck(currentRound) == currentRound

\* session.currentRound++
NextIndex(currentRound) == currentRound + 1

\* playRound(ws, session), sid the value of its session argument and t the
\* timers pending when it is called
playRound(sid, t) ==
  IF sid = Null
  THEN \* session.rounds of null
       /\ Throws
       /\ timers' = t
       /\ UNCHANGED <<sessions, runs, roundLog, finalized>>
  ELSE LET s == sessions[sid]
           round == NextIndex(s.currentRound)
       IN IF s.currentRound < Len(s.rounds)
             THEN LET roundData == s.rounds[s.currentRound + 1]
                      id == FreshId(runs)
                      armed == setTimer(t, 500, Timer("simulateDualAI", id, 0))
                      keep == Referenced(sid, Append(runs, NewRun(id, sid, roundData)), armed)
                  IN /\ Alive
                     /\ sessions' = Write(sid, [s EXCEPT !.currentRound = round])
                     /\ emitted' = sendTo(wsOpen,
                          [type |-> "round_start", round |-> round,
                           totalRounds |-> s.totalRounds,
                           photo |-> RoundRecord(roundData).image_url,
                           locationName |-> RoundRecord(roundData).name])
                     /\ timers' = armed
                     /\ runs' = Keep(Append(runs, NewRun(id, sid, roundData)), keep)
                     /\ roundLog' = Keep(Append(roundLog, NewRoundLog(sid, roundData, round)), keep)
                     /\ finalized' = Keep(finalized, keep)
             ELSE \* roundData is undefined: roundData.image_url throws
                  /\ Throws
                  /\ timers' = t
                  /\ sessions' = Write(sid, [s EXCEPT !.currentRound = round])
                  /\ UNCHANGED <<runs, roundLog, finalized>>

\* the allocation that keeps the session object when there is one
AllocateReuse(s) ==
  IF session = Null
  THEN LET sid == allocs + 1
           keep == Referenced(sid, runs, timers)
       IN /\ allocs' = sid
          /\ session' = sid
          /\ sessions' = [x \in {sid} |-> s]
          /\ runs' = Keep(runs, keep)
          /\ roundLog' = Keep(roundLog, keep)
          /\ finalized' = Keep(finalized, keep)
  ELSE /\ allocs' = allocs + 1
       /\ UNCHANGED <<session, sessions, runs, roundLog, finalized>>

\* session = { ... }: the closure variable now refers to a new object
Allocate(s) ==
  LET sid == allocs + 1
      keep == Referenced(sid, runs, timers)
  IN /\ allocs' = sid
     /\ session' = sid
     /\ sessions' = [x \in {sid} |-> s]
     /\ runs' = Keep(runs, keep)
     /\ roundLog' = Keep(roundLog, keep)
     /\ finalized' = Keep(finalized, keep)

\* case "start_game"
StartGameOn(raw, rounds) ==
    /\ Receives(raw, "start_game")
    /\ allocs < MaxSessions
    /\ asked < MaxRounds
    /\ asked' = asked + 1
    /\ Allocate(NewSession(rounds))
    /\ emitted' = sendTo(wsOpen, [type |-> "game_starting"])
    /\ timers' = setTimer(timers, 1000, Timer("countInterval", 0, 3))
    /\ lastEvent' = "start_game"
    /\ Alive
    /\ UNCHANGED <<numRecords, peer, client, call, conn>>

StartGame ==
  \E raw \in RawFrames, rounds \in loadRounds(numRecords) :
    StartGameOn(raw, rounds)

\* the countInterval callback
CountdownTick ==
  /\ Due(1000, "countInterval")
  /\ LET count == Head(timers[1000]).count IN
       /\ emitted' = sendTo(wsOpen, [type |-> "countdown", count |-> count])
       /\ timers' = IF count - 1 = 0
                    THEN setTimer(Expire(timers, 1000), 1000, Timer("playRound", 0, 0))
                    ELSE setTimer(Expire(timers, 1000), 1000, Timer("countInterval", 0, count - 1))
  /\ lastEvent' = "countInterval"
  /\ Alive
  /\ UNCHANGED <<numRecords, peer, client, call, conn, session, sessions, runs, allocs, asked, roundLog, finalized>>

\* the timeout set when the count reached 0: () => playRound(ws, session)
CountdownDone ==
  /\ Due(1000, "playRound")
  /\ playRound(session, Expire(timers, 1000))
  /\ lastEvent' = "countdown_playRound"
  /\ UNCHANGED <<numRecords, peer, client, call, conn, session, allocs, asked>>

\* the tests of next_round letting a session through that has played totalRounds
NextRoundReturnsLate(sid) ==
  sid = Null \/ sessions[sid].currentRound > sessions[sid].totalRounds

\* if (!session) return; if (session.currentRound >= session.totalRounds) return;
NextRoundReturns(sid) ==
  sid = Null \/ sessions[sid].currentRound >= sessions[sid].totalRounds

\* case "next_round"
NextRound ==
  \E raw \in RawFrames :
    /\ Receives(raw, "next_round")
    /\ lastEvent' = "next_round"
    /\ IF NextRoundReturns(session)
       THEN /\ emitted' = <<>>
            /\ Alive
            /\ UNCHANGED <<sessions, timers, runs, roundLog, finalized, asked>>
       ELSE /\ asked < MaxRounds
            /\ asked' = asked + 1
            /\ playRound(session, timers)
    /\ UNCHANGED <<numRecords, peer, client, call, conn, session, allocs>>

\* the 500 ms timeout of playRound: simulateDualAI up to its two timer calls
SimulateDualAI ==
  /\ Due(500, "simulateDualAI")
  /\ LET r == runs[RunOf(500)] IN
       /\ sessions' = IF r.sid \in DOMAIN sessions
                      THEN Write(r.sid, [sessions[r.sid] EXCEPT !.currentGuesses = NoGuesses])
                      ELSE sessions
       /\ timers' = setTimer(setTimer(Expire(timers, 500), 450, Timer("atlasInterval", r.id, 0)),
                             200, Timer("novaTimeout", r.id, 0))
  /\ emitted' = <<>>
  /\ lastEvent' = "simulateDualAI"
  /\ Alive
  /\ UNCHANGED <<numRecords, peer, client, call, conn, session, runs, allocs, asked, roundLog, finalized>>

\* the 200 ms timeout that starts novaInterval
NovaStart ==
  /\ Due(200, "novaTimeout")
  /\ timers' = setTimer(Expire(timers, 200), 500, Timer("novaInterval", Head(timers[200]).run, 0))
  /\ emitted' = <<>>
  /\ lastEvent' = "novaTimeout"
  /\ Alive
  /\ UNCHANGED <<numRecords, peer, client, call, conn, session, sessions, runs, allocs, asked, roundLog, finalized>>

\* the writes of a terminal callback to its session: currentGuesses[agentId]
\* = guess and, when the other agent is done, pendingRoundData = roundData
StoreGuess(sid, agentId, guess, roundData, bothDone) ==
  IF sid \notin DOMAIN sessions THEN sessions
  ELSE Write(sid, [sessions[sid] EXCEPT
                     !.currentGuesses = SetGuess(@, agentId, guess),
                     !.pendingRoundData = IF bothDone THEN roundData ELSE @])

\* the rendezvous test answering no whatever the other agent's flag
OtherDoneNever(other) == FALSE

\* the rendezvous test answering yes whatever the other agent's flag
OtherDoneAlways(other) == TRUE

\* if (novaDone) in the atlas callback, if (atlasDone) in the nova callback
OtherDone(other) == other

\* the non-terminal ai_stream frame
StreamFrame(agent, text) ==
  [type |-> "ai_stream", agent |-> agent, text |-> text, done |-> FALSE]

\* the terminal ai_stream frame
TerminalFrame(agent, guess, confidence) ==
  [type |-> "ai_stream", agent |-> agent, text |-> "", done |-> TRUE,
   guess |-> guess, confidence |-> confidence]

\* the atlasInterval callback
AtlasTick ==
  /\ Due(450, "atlasInterval")
  /\ LET i == RunOf(450)
         r == runs[i]
         n == Len(sendTo(wsOpen, "frame"))
     IN IF r.atlasIdx < Len(Clues("atlas", r))
        THEN /\ emitted' = sendTo(wsOpen, StreamFrame("atlas", Clues("atlas", r)[r.atlasIdx + 1]))
             /\ runs' = [runs EXCEPT ![i].atlasIdx = @ + 1]
             /\ timers' = setTimer(Expire(timers, 450), 450, Head(timers[450]))
             /\ UNCHANGED <<sessions, roundLog>>
        ELSE \E draw \in RandomDraws :
             LET guess == makeAIGuess(RoundRecord(r.roundData).location, "atlas", draw) IN
             /\ timers' = Expire(timers, 450)
             /\ runs' = [runs EXCEPT ![i].atlasDone = TRUE]
             /\ IF OtherDone(r.novaDone)
                THEN /\ sessions' = StoreGuess(r.sid, "atlas", guess, r.roundData, TRUE)
                     /\ emitted' = sendTo(wsOpen, TerminalFrame("atlas", guess, Confidence("atlas", draw)))
                                     \o sendTo(wsOpen, [type |-> "analysis_complete"])
                     /\ roundLog' = [roundLog EXCEPT ![i].terminal.atlas = @ + n,
                                                     ![i].guess = SetGuess(@, "atlas", guess),
                                                     ![i].complete = @ + n,
                                                     ![i].last = IF n = 1 THEN "atlas" ELSE @]
                ELSE /\ sessions' = StoreGuess(r.sid, "atlas", guess, r.roundData, FALSE)
                     /\ emitted' = sendTo(wsOpen, TerminalFrame("atlas", guess, Confidence("atlas", draw)))
                     /\ roundLog' = [roundLog EXCEPT ![i].terminal.atlas = @ + n,
                                                     ![i].guess = SetGuess(@, "atlas", guess)]
  /\ lastEvent' = "atlasInterval"
  /\ Alive
  /\ UNCHANGED <<numRecords, peer, client, call, conn, session, allocs, asked, finalized>>

\* the novaInterval callback
NovaTick ==
  /\ Due(500, "novaInterval")
  /\ LET i == RunOf(500)
         r == runs[i]
         n == Len(sendTo(wsOpen, "frame"))
     IN IF r.novaIdx < Len(Clues("nova", r))
        THEN /\ emitted' = sendTo(wsOpen, StreamFrame("nova", Clues("nova", r)[r.novaIdx + 1]))
             /\ runs' = [runs EXCEPT ![i].novaIdx = @ + 1]
             /\ timers' = setTimer(Expire(timers, 500), 500, Head(timers[500]))
             /\ UNCHANGED <<sessions, roundLog>>
        ELSE \E draw \in RandomDraws :
             LET guess == makeAIGuess(RoundRecord(r.roundData).location, "nova", draw) IN
             /\ timers' = Expire(timers, 500)
             /\ runs' = [runs EXCEPT ![i].novaDone = TRUE]
             /\ IF OtherDone(r.atlasDone)
                THEN /\ sessions' = StoreGuess(r.sid, "nova", guess, r.roundData, TRUE)
                     /\ emitted' = sendTo(wsOpen, TerminalFrame("nova", guess, Confidence("nova", draw)))
                                     \o sendTo(wsOpen, [type |-> "analysis_complete"])
                     /\ roundLog' = [roundLog EXCEPT ![i].terminal.nova = @ + n,
                                                     ![i].guess = SetGuess(@, "nova", guess),
                                                     ![i].complete = @ + n,
                                                     ![i].last = IF n = 1 THEN "nova" ELSE @]
                ELSE /\ sessions' = StoreGuess(r.sid, "nova", guess, r.roundData, FALSE)
                     /\ emitted' = sendTo(wsOpen, TerminalFrame("nova", guess, Confidence("nova", draw)))
                     /\ roundLog' = [roundLog EXCEPT ![i].terminal.nova = @ + n,
                                                     ![i].guess = SetGuess(@, "nova", guess)]
  /\ lastEvent' = "novaInterval"
  /\ Alive
  /\ UNCHANGED <<numRecords, peer, client, call, conn, session, allocs, asked, finalized>>

(***************************************************************************)
(* finishRound and the leaderboard.                                        *)
(***************************************************************************)
\* the insertion that puts an entry ahead of the entries of equal key
RECURSIVE InsertAhead(_, _)
InsertAhead(sorted, e) ==
  IF sorted = <<>> THEN <<e>>
  ELSE IF e[1] <= sorted[Len(sorted)][1]
       THEN Append(InsertAhead(SubSeq(sorted, 1, Len(sorted) - 1), e), sorted[Len(sorted)])
       ELSE Append(sorted, e)

\* Array.prototype.sort with the comparator (a, b) => key(a) - key(b), which
\* is stable: insertion of <<key, value>> pairs, equal keys keep their order
RECURSIVE Insert(_, _)
Insert(sorted, e) ==
  IF sorted = <<>> THEN <<e>>
  ELSE IF e[1] < sorted[Len(sorted)][1]
       THEN Append(Insert(SubSeq(sorted, 1, Len(sorted) - 1), e), sorted[Len(sorted)])
       ELSE Append(sorted, e)

RECURSIVE SortPairs(_)
SortPairs(pairs) ==
  IF pairs = <<>> THEN <<>>
  ELSE Insert(SortPairs(SubSeq(pairs, 1, Len(pairs) - 1)), pairs[Len(pairs)])

SortByKey(pairs) == [k \in 1..Len(pairs) |-> SortPairs(pairs)[k][2]]

\* the entries in enumeration order, without the sort
LeaderboardUnsorted(s) ==
  [k \in 1..Len(AgentOrder) |->
     [id |-> AgentOrder[k],
      totalDistance |-> s.agentDistances[AgentOrder[k]],
      roundWins |-> s.roundWins[AgentOrder[k]]]]

\* Object.keys(AGENTS).map(...).sort((a, b) => a.totalDistance - b.totalDistance)
Leaderboard(s) ==
  SortByKey([k \in 1..Len(AgentOrder) |->
    <<s.agentDistances[AgentOrder[k]],
      [id |-> AgentOrder[k],
       totalDistance |-> s.agentDistances[AgentOrder[k]],
       roundWins |-> s.roundWins[AgentOrder[k]]]>>])

\* every guess makeAIGuess can return in this model
AllGuesses ==
  {makeAIGuess(RoundRecord(i).location, a, d) :
     i \in 1..MaxRecords, a \in AgentIds, d \in RandomDraws}

\* Math.round(haversineDistance(guess.lat, guess.lng, actual.lat, actual.lng)),
\* evaluated once for every guess and every record's location
DistanceTable ==
  [g \in AllGuesses, i \in 1..MaxRecords |->
     MathRound(haversineDistance(g.lat, g.lng,
                                 RoundRecord(i).location.lat, RoundRecord(i).location.lng))]

\* the rounded distance of a guess from the location of record roundData
RoundedDist(guess, roundData) == DistanceTable[guess, roundData]

\* how many agents the map callback of finishRound gets through: it throws
\* at the first agent whose guess is undefined (guess.lat)
RECURSIVE Scored(_, _)
Scored(guesses, k) ==
  IF k > Len(AgentOrder) \/ AgentOrder[k] \notin DOMAIN guesses THEN k - 1
  ELSE Scored(guesses, k + 1)

\* the win test that never passes
HasWinnerNever(results) == FALSE

\* the win test with <= for <
HasWinnerOrTie(results) == Len(results) >= 2 /\ results[1].distance <= results[2].distance

\* if (results.length >= 2 && results[0].distance < results[1].distance)
HasWinner(results) == Len(results) >= 2 /\ results[1].distance < results[2].distance

\* finishRound(ws, session, roundData) on the session value s:
\* the session it leaves, the frames it sends, whether it throws
finishRound(s, roundData, open) ==
  LET actual == RoundRecord(roundData).location
      n == Scored(s.currentGuesses, 1)
      done == {AgentOrder[k] : k \in 1..n}
      s1 == [s EXCEPT !.agentDistances =
               [a \in AgentIds |-> IF a \in done
                                   THEN @[a] + RoundedDist(s.currentGuesses[a], roundData)
                                   ELSE @[a]]]
      results == SortByKey([k \in 1..Len(AgentOrder) |->
                   <<RoundedDist(s.currentGuesses[AgentOrder[k]], roundData),
                     [agentId |-> AgentOrder[k],
                      guess |-> s.currentGuesses[AgentOrder[k]],
                      distance |-> RoundedDist(s.currentGuesses[AgentOrder[k]], roundData)]>>])
      s2 == IF HasWinner(results)
            THEN [s1 EXCEPT !.roundWins[results[1].agentId] = @ + 1]
            ELSE s1
      frame == [type |-> "round_results",
                round |-> s.currentRound,
                totalRounds |-> s.totalRounds,
                results |-> results,
                actualLocation |-> actual,
                locationName |-> RoundRecord(roundData).name,
                isLastRound |-> s.currentRound >= s.totalRounds,
                leaderboard |-> Leaderboard(s2)]
  IN IF n < Len(AgentOrder)
     THEN [thrown |-> TRUE, session |-> s1, frames |-> <<>>]
     ELSE [thrown |-> FALSE, session |-> s2, frames |-> sendTo(open, frame)]

\* the request_results handler without the assignment of null
ConsumePendingKept(s) == s

\* session.pendingRoundData = null
ConsumePending(s) == [s EXCEPT !.pendingRoundData = Null]

\* case "request_results"
RequestResults ==
  \E raw \in RawFrames :
    /\ Receives(raw, "request_results")
    /\ lastEvent' = "request_results"
    /\ IF session = Null \/ sessions[session].pendingRoundData = Null
       THEN /\ emitted' = <<>>
            /\ Alive
            /\ UNCHANGED <<sessions, finalized>>
       ELSE LET roundData == sessions[session].pendingRoundData
                fin == finishRound(ConsumePending(sessions[session]), roundData, wsOpen)
            IN /\ sessions' = [sessions EXCEPT ![session] = fin.session]
               /\ emitted' = fin.frames
               /\ crashed' = fin.thrown
               /\ finalized' = finalized \o
                    [k \in 1..Len(fin.frames) |->
                       [sid |-> session, roundData |-> roundData,
                        round |-> fin.frames[k].round,
                        distance |-> [a \in AgentIds |->
                          LET e == CHOOSE e \in {fin.frames[k].results[j] :
                                                   j \in 1..Len(fin.frames[k].results)} :
                                     e.agentId = a
                          IN e.distance]]]
    /\ UNCHANGED <<numRecords, peer, client, call, conn, session, timers, runs, allocs, asked, roundLog>>

\* show_scoreboard taking the pending payload with it
ShowScoreboardConsumes ==
  \E raw \in RawFrames :
    /\ Receives(raw, "show_scoreboard")
    /\ lastEvent' = "show_scoreboard"
    /\ emitted' = IF session = Null THEN <<>>
                  ELSE sendTo(wsOpen, [type |-> "final_scoreboard",
                                       leaderboard |-> Leaderboard(sessions[session])])
    /\ Alive
    /\ sessions' = IF session = Null THEN sessions
                   ELSE [sessions EXCEPT ![session] = ConsumePending(@)]
    /\ UNCHANGED <<numRecords, peer, client, call, conn, session, timers, runs, allocs, asked,
                   roundLog, finalized>>

\* case "show_scoreboard"
ShowScoreboard ==
  \E raw \in RawFrames :
    /\ Receives(raw, "show_scoreboard")
    /\ lastEvent' = "show_scoreboard"
    /\ emitted' = IF session = Null THEN <<>>
                  ELSE sendTo(wsOpen, [type |-> "final_scoreboard",
                                       leaderboard |-> Leaderboard(sessions[session])])
    /\ Alive
    /\ UNCHANGED <<numRecords, peer, client, call, conn, session, sessions, timers, runs, allocs, asked,
                   roundLog, finalized>>

\* case "play_again"
PlayAgainOn(raw, rounds) ==
    /\ Receives(raw, "play_again")
    /\ allocs < MaxSessions
    /\ Allocate(NewSession(rounds))
    /\ emitted' = sendTo(wsOpen, [type |-> "game_reset"])
    /\ lastEvent' = "play_again"
    /\ Alive
    /\ UNCHANGED <<numRecords, peer, client, call, conn, timers, asked>>

PlayAgain ==
  \E raw \in RawFrames, rounds \in loadRounds(numRecords) :
    PlayAgainOn(raw, rounds)

\* JSON.parse throws: catch { return; }
BadFrame ==
  \E raw \in RawFrames :
    /\ Receives(raw, "SyntaxError")
    /\ lastEvent' = "bad_frame"
    /\ emitted' = <<>>
    /\ Alive
    /\ UNCHANGED <<numRecords, peer, client, call, conn, session, sessions, timers, runs, allocs, asked,
                   roundLog, finalized>>

\* JSON.parse returns null: msg.type throws, outside the try block
NullFrame ==
  \E raw \in RawFrames :
    /\ Receives(raw, "null")
    /\ lastEvent' = "null_frame"
    /\ Throws
    /\ UNCHANGED <<numRecords, peer, client, call, conn, session, sessions, timers, runs, allocs, asked,
                   roundLog, finalized>>

CommandTypes ==
  {"start_game", "request_results", "next_round", "show_scoreboard", "play_again"}

\* the switch has no case for msg.type
UnknownType ==
  \E raw \in RawFrames :
    /\ wsOpen /\ ~crashed
    /\ JSONParse(raw) \notin CommandTypes \cup {"SyntaxError", "null"}
    /\ lastEvent' = "unknown_type"
    /\ emitted' = <<>>
    /\ Alive
    /\ UNCHANGED <<numRecords, peer, client, call, conn, session, sessions, timers, runs, allocs, asked,
                   roundLog, finalized>>

(***************************************************************************)
(* Transport teardown: ws.on("error"), ws.on("close").  The ws library     *)
(* leaves readyState 1 before it emits either.  After an error it emits    *)
(* close as well, whose handler assigns null to session once more.         *)
(***************************************************************************)
OnError ==
  /\ ~crashed
  /\ conn = "open"
  /\ conn' = "closed"
  /\ session' = Null
  /\ sessions' = [x \in {} |-> Null]
  /\ lastEvent' = "error"
  /\ emitted' = <<>>
  /\ Alive
  /\ UNCHANGED <<numRecords, peer, client, call, timers, runs, allocs, asked, roundLog, finalized>>

OnClose ==
  /\ ~crashed
  /\ conn = "open"
  /\ conn' = "closed"
  /\ session' = Null
  /\ sessions' = [x \in {} |-> Null]
  /\ lastEvent' = "close"
  /\ emitted' = <<>>
  /\ Alive
  /\ UNCHANGED <<numRecords, peer, client, call, timers, runs, allocs, asked, roundLog, finalized>>

Next ==
  \/ StartGame
  \/ RequestResults
  \/ NextRound
  \/ ShowScoreboard
  \/ PlayAgain
  \/ BadFrame
  \/ UnknownType
  \/ NullFrame
  \/ CountdownTick
  \/ CountdownDone
  \/ SimulateDualAI
  \/ NovaStart
  \/ AtlasTick
  \/ NovaTick
  \/ OnError
  \/ OnClose

Spec == Init /\ [][Next]_vars

(***************************************************************************)
(* Two connections of one process.  Every connection runs the handlers     *)
(* above on its own closure variable; the second connection is followed    *)
(* through the handlers that arm no timer, the first through start_game,   *)
(* its countdown and the teardown.  An uncaught error ends the process,    *)
(* and with it the service of every connection.                            *)
(***************************************************************************)
\* the handlers of the second connection
PeerEvents == {"peer_connection", "peer_play_again", "peer_show_scoreboard", "peer_close"}

\* the process serves the second connection: its socket is open
PeerServed == peer.conn = "open" /\ ~crashed

\* what a handler of the second connection leaves alone
PeerStep ==
  /\ Alive
  /\ UNCHANGED <<numRecords, conn, session, sessions, timers, runs, allocs, asked,
                 emitted, roundLog, finalized, client, call>>

\* wss.on("connection") for a second socket: let session = null
PeerConnection ==
  /\ ~crashed
  /\ peer.conn = "none"
  /\ peer' = [conn |-> "open", session |-> <<>>, emitted |-> <<>>]
  /\ lastEvent' = "peer_connection"
  /\ PeerStep

\* case "play_again" on the second connection
PeerPlayAgain ==
  \E rounds \in loadRounds(numRecords) :
    /\ PeerServed
    /\ peer' = [peer EXCEPT !.session = <<NewSession(rounds)>>,
                            !.emitted = sendTo(TRUE, [type |-> "game_reset"])]
    /\ lastEvent' = "peer_play_again"
    /\ PeerStep

\* case "show_scoreboard" on the second connection
PeerShowScoreboard ==
  /\ PeerServed
  /\ peer' = [peer EXCEPT !.emitted =
                IF peer.session = <<>> THEN <<>>
                ELSE sendTo(TRUE, [type |-> "final_scoreboard",
                                   leaderboard |-> Leaderboard(peer.session[1])])]
  /\ lastEvent' = "peer_show_scoreboard"
  /\ PeerStep

\* ws.on("close") of the second connection
PeerClose ==
  /\ PeerServed
  /\ peer' = [conn |-> "closed", session |-> <<>>, emitted |-> <<>>]
  /\ lastEvent' = "peer_close"
  /\ PeerStep

NextPeers ==
  \/ StartGame
  \/ CountdownTick
  \/ CountdownDone
  \/ OnClose
  \/ PeerConnection
  \/ PeerPlayAgain
  \/ PeerShowScoreboard
  \/ PeerClose

SpecPeers == Init /\ [][NextPeers]_vars

(***************************************************************************)
(* Properties.                                                             *)
(***************************************************************************)
\* the callbacks of timers
TimerCallbacks ==
  {"countInterval", "countdown_playRound", "simulateDualAI", "novaTimeout",
   "atlasInterval", "novaInterval"}

\* the sum of agent a's distances over the round_results frames of session sid
RECURSIVE Reported(_, _, _)
Reported(log, sid, a) ==
  IF log = <<>> THEN 0
  ELSE (IF Head(log).sid = sid THEN Head(log).distance[a] ELSE 0)
         + Reported(Tail(log), sid, a)

\* C1: for every round started, analysis_complete is sent at most once, only
\* when both agents' terminal ai_stream frames of that round have been sent,
\* and it has been sent once both have been; whichever agent finishes last.
C1_AnalysisCompleteOnce ==
  \A i \in 1..Len(roundLog) :
    /\ roundLog[i].complete <= 1
    /\ roundLog[i].complete = 1 <=>
         (roundLog[i].terminal.atlas = 1 /\ roundLog[i].terminal.nova = 1)

\* two rounds whose analysis_complete was sent, one by the atlas callback
\* (nova finished first), one by the nova callback (atlas finished first)
C1_Witness ==
  \E i, j \in 1..Len(roundLog) :
    /\ roundLog[i].complete = 1 /\ roundLog[i].last = "atlas"
    /\ roundLog[j].complete = 1 /\ roundLog[j].last = "nova"

\* C2: in every reachable state the session has 0 <= currentRound <= totalRounds.
C2_RoundIndexInRange ==
  session # Null =>
    /\ 0 <= sessions[session].currentRound
    /\ sessions[session].currentRound <= sessions[session].totalRounds

\* C3: after the teardown of the connection no timer callback of it runs.
C3_NoCallbackAfterTeardown ==
  ~(conn = "closed" /\ lastEvent \in TimerCallbacks)

\* C4: no handler or callback raises an uncaught error, under every
\* interleaving of frames, timer callbacks and teardown.
C4_NoFatalError == ~crashed

\* the round that stored record roundData of session sid as pending: both
\* terminal frames and its analysis_complete were sent
Completed(sid, roundData) ==
  \E i \in 1..Len(roundLog) :
    /\ roundLog[i].sid = sid /\ roundLog[i].roundData = roundData
    /\ roundLog[i].terminal.atlas = 1 /\ roundLog[i].terminal.nova = 1
    /\ roundLog[i].complete = 1

\* the results of record roundData of session sid have been sent
Finalized(sid, roundData) ==
  \E k \in 1..Len(finalized) :
    finalized[k].sid = sid /\ finalized[k].roundData = roundData

\* C5: the pending payload is non-null only if both agents of that round
\* finished and its results were not requested since, and it is null in every
\* other lifecycle state, also once a later round has started: a pending
\* payload is the record of the round the session is in.
C5_PendingOnlyBetween ==
  (~crashed /\ session # Null /\ sessions[session].pendingRoundData # Null) =>
    LET s == sessions[session]
    IN /\ Completed(session, s.pendingRoundData)
       /\ ~Finalized(session, s.pendingRoundData)
       /\ s.currentRound \in 1..Len(s.rounds)
       /\ s.rounds[s.currentRound] = s.pendingRoundData

\* C6: a round is finalized at most once: no two round_results frames of a
\* session are for the same round record.
C6_FinalizedOnce ==
  \A j, k \in 1..Len(finalized) :
    (finalized[j].sid = finalized[k].sid /\ finalized[j].roundData = finalized[k].roundData)
      => j = k

\* a request_results that follows the finalization of the round is ignored
C6_Witness ==
  /\ session # Null
  /\ lastEvent = "request_results"
  /\ emitted = <<>>
  /\ ~crashed
  /\ \E k \in 1..Len(finalized) : finalized[k].sid = session

\* C7: each agent's cumulative distance is the sum of the rounded distances
\* reported for it in the round_results frames of the current session.
C7_TotalsAreReportedSums ==
  session # Null =>
    \A a \in AgentIds :
      sessions[session].agentDistances[a] = Reported(finalized, session, a)

\* C8: roundWins[atlas] + roundWins[nova] <= currentRound in every state.
C8_WinsAtMostRounds ==
  session # Null =>
    sessions[session].roundWins["atlas"] + sessions[session].roundWins["nova"]
      <= sessions[session].currentRound

\* every round played so far was won by an agent
C8_Witness ==
  /\ session # Null
  /\ sessions[session].currentRound = 2
  /\ sessions[session].roundWins["atlas"] + sessions[session].roundWins["nova"] = 2

\* the distance reported for agent a in a round_results frame
DistanceIn(frame, a) ==
  LET e == CHOOSE e \in {frame.results[j] : j \in 1..Len(frame.results)} : e.agentId = a
  IN e.distance

\* C9: a finalization gives exactly one round win, to the agent whose rounded
\* distance is strictly lower, and none when the two distances are equal.
C9_WinToStrictlyCloser ==
  [][(lastEvent' = "request_results" /\ emitted' # <<>>) =>
       LET dA == DistanceIn(emitted'[1], "atlas")
           dN == DistanceIn(emitted'[1], "nova")
           w == sessions[session].roundWins
           w2 == sessions'[session'].roundWins
       IN /\ dA < dN => (w2["atlas"] = w["atlas"] + 1 /\ w2["nova"] = w["nova"])
          /\ dN < dA => (w2["nova"] = w["nova"] + 1 /\ w2["atlas"] = w["atlas"])
          /\ dA = dN => w2 = w]_vars

\* a session with a finalized round that was tied and one that was not
C9_Witness ==
  \E j, k \in 1..Len(finalized) :
    /\ finalized[j].sid = session /\ finalized[k].sid = session
    /\ finalized[j].distance["atlas"] = finalized[j].distance["nova"]
    /\ finalized[k].distance["atlas"] # finalized[k].distance["nova"]

\* C10: once the connection is closed or has errored, no frame is sent on it.
C10_NothingSentAfterTeardown ==
  conn = "closed" => emitted = <<>>

\* a stream callback ran after the teardown
C10_Witness ==
  conn = "closed" /\ lastEvent \in {"atlasInterval", "novaInterval"}

\* C11: right after play_again is handled, whatever the state before, both
\* cumulative distances and both win counts are 0, the round index is 0, the
\* guesses are empty, no payload is pending, and exactly one game_reset frame
\* was sent.
C11_PlayAgainResets ==
  lastEvent = "play_again" =>
    /\ session # Null
    /\ sessions[session].agentDistances = [atlas |-> 0, nova |-> 0]
    /\ sessions[session].roundWins = [atlas |-> 0, nova |-> 0]
    /\ sessions[session].currentRound = 0
    /\ sessions[session].currentGuesses = NoGuesses
    /\ sessions[session].pendingRoundData = Null
    /\ emitted = <<[type |-> "game_reset"]>>

\* play_again handled while a round of the replaced session is still
\* streaming, after that session had a round finalized at a distance above 0
C11_Witness ==
  /\ lastEvent = "play_again"
  /\ \E k \in 1..Len(finalized) :
        /\ finalized[k].sid # session
        /\ finalized[k].distance["atlas"] + finalized[k].distance["nova"] > 0
  /\ \E i \in 1..Len(runs) : runs[i].sid # session

\* C12: a next_round received when there is no session or when currentRound
\* >= totalRounds sends no frame, arms no timer and leaves every field of the
\* session as it was.
C12_RefusedNextRoundIsNoOp ==
  [][(/\ lastEvent' = "next_round"
      /\ (session = Null \/ sessions[session].currentRound >= sessions[session].totalRounds))
       => /\ emitted' = <<>>
          /\ timers' = timers
          /\ session' = session
          /\ sessions' = sessions
          /\ crashed' = crashed]_vars

\* a next_round was refused on a session that has played all its rounds
C12_Witness ==
  /\ lastEvent = "next_round"
  /\ emitted = <<>>
  /\ ~crashed
  /\ session # Null
  /\ sessions[session].currentRound >= sessions[session].totalRounds
  /\ sessions[session].totalRounds >= 1

\* C13: a request_results is accepted only while a payload is pending;
\* accepting it clears the payload and sends exactly one round_results frame;
\* one received with no payload pending (or with no session) sends nothing
\* and changes no total and no win count.
C13_RequestResultsGate ==
  [][lastEvent' = "request_results" =>
       IF session # Null /\ sessions[session].pendingRoundData # Null
       THEN /\ sessions'[session].pendingRoundData = Null
            /\ Len(emitted') = 1
            /\ emitted'[1].type = "round_results"
       ELSE /\ emitted' = <<>>
            /\ sessions' = sessions
            /\ crashed' = crashed]_vars

\* C14: an inbound frame that fails to parse, or whose parsed value has a
\* type that is none of the five commands, sends no frame, arms no timer and
\* leaves the session unchanged.
C14_InvalidFrameIsNoOp ==
  [][lastEvent' \in {"bad_frame", "unknown_type", "null_frame"} =>
       /\ emitted' = <<>>
       /\ timers' = timers
       /\ session' = session
       /\ sessions' = sessions
       /\ crashed' = crashed]_vars

\* C15: the frames a start_game on an open connection leads to end, after
\* game_starting and the countdown 3, 2, 1, with the round_start of round 1
\* of a fresh session: the playRound call of every countdown that ends on an
\* open connection sends round_start with round = 1, also when other commands
\* arrived during the countdown.
C15_CountdownStartsRoundOne ==
  (lastEvent = "countdown_playRound" /\ conn = "open" /\ ~crashed) =>
    /\ Len(emitted) = 1
    /\ emitted[1].type = "round_start"
    /\ emitted[1].round = 1

\* C16: a round_start of a new round is never sent while the previous round
\* of the session is still analyzing, so that at most one round of a session
\* has timers pending (its delayed start or its streamers) at any time.
C16_OneRoundAtATime ==
  \A i, j \in 1..Len(runs) :
    (/\ runs[i].sid = runs[j].sid
     /\ LiveRun(timers, runs[i])
     /\ LiveRun(timers, runs[j])) => i = j

\* C17: connections are isolated: a command, a timer callback or the
\* teardown of one connection changes neither the session of another
\* connection nor the frames sent to it, and does not end its service.
C17_ConnectionsIsolated ==
  [][lastEvent' \notin PeerEvents =>
       /\ peer' = peer
       /\ PeerServed => PeerServed']_vars

(***************************************************************************)
(* Sessions allocated over data files of up to MaxSupply records.  The      *)
(* shuffle of loadRounds is followed through the rotations of the file      *)
(* order only: the handlers read the length of the list and nothing else    *)
(* before a round is played.                                                *)
(***************************************************************************)
someRounds(n) ==
  IF n = 0 THEN {<<>>}
  ELSE {[i \in 1..n |-> ((i + k - 1) % n) + 1] : k \in 0..(n - 1)}

InitSupply ==
  /\ numRecords \in 0..MaxSupply
  /\ Connected

SupplyStartGame ==
  \E raw \in RawFrames, rounds \in someRounds(numRecords) :
    StartGameOn(raw, rounds)

SupplyPlayAgain ==
  \E raw \in RawFrames, rounds \in someRounds(numRecords) :
    PlayAgainOn(raw, rounds)

NextSupply == SupplyStartGame \/ SupplyPlayAgain

SpecSupply == InitSupply /\ [][NextSupply]_vars

\* C18: a session allocated by start_game or play_again has totalRounds equal
\* to the smaller of 5 and the number of records available: twelve records
\* give 5 rounds, three records give 3.
C18_TotalRoundsIsCapped ==
  (lastEvent \in {"start_game", "play_again"} /\ session # Null) =>
    /\ sessions[session].totalRounds =
         (IF numRecords <= 5 THEN numRecords ELSE 5)
    /\ numRecords = 12 => sessions[session].totalRounds = 5
    /\ numRecords = 3 => sessions[session].totalRounds = 3

C18_Witness ==
  /\ lastEvent = "play_again"
  /\ session # Null
  /\ numRecords = 12
  /\ Len(sessions[session].rounds) = 12
  /\ sessions[session].totalRounds = 5

\* C19: in a session with N finalized rounds, the two agents' round wins
\* plus the number of finalized rounds whose two rounded distances were equal
\* make N, and a show_scoreboard that follows reports exactly these round wins
\* in its leaderboard.
C19_WinsAndTiesCountRounds ==
  session # Null =>
    LET s == sessions[session]
        mine == {k \in 1..Len(finalized) : finalized[k].sid = session}
        tied == {k \in mine :
                   finalized[k].distance["atlas"] = finalized[k].distance["nova"]}
    IN /\ s.roundWins["atlas"] + s.roundWins["nova"] + Cardinality(tied)
            = Cardinality(mine)
       /\ (lastEvent = "show_scoreboard" /\ conn = "open") =>
            /\ Len(emitted) = 1
            /\ emitted[1].type = "final_scoreboard"
            /\ \A a \in AgentIds :
                 \E j \in 1..Len(emitted[1].leaderboard) :
                   /\ emitted[1].leaderboard[j].id = a
                   /\ emitted[1].leaderboard[j].roundWins = s.roundWins[a]
                   /\ \A i \in 1..Len(emitted[1].leaderboard) :
                        emitted[1].leaderboard[i].id = a => i = j

\* the scoreboard of a session with a won round and a tied round
C19_Witness ==
  /\ session # Null
  /\ lastEvent = "show_scoreboard"
  /\ emitted # <<>>
  /\ Cardinality({k \in 1..Len(finalized) : finalized[k].sid = session}) = 2
  /\ \E k \in 1..Len(finalized) :
       /\ finalized[k].sid = session
       /\ finalized[k].distance["atlas"] = finalized[k].distance["nova"]
  /\ sessions[session].roundWins["atlas"] + sessions[session].roundWins["nova"] = 1

\* C20: the leaderboard of a round_results or final_scoreboard frame lists both
\* agents by ascending cumulative distance, atlas before nova when the totals
\* are equal, and every entry carries the agent's current totalDistance and
\* roundWins.
C20_LeaderboardOrder ==
  (lastEvent \in {"request_results", "show_scoreboard"} /\ emitted # <<>>) =>
    LET lb == emitted[1].leaderboard
        s == sessions[session]
    IN /\ emitted[1].type \in {"round_results", "final_scoreboard"}
       /\ Len(lb) = 2
       /\ {lb[1].id, lb[2].id} = {"atlas", "nova"}
       /\ lb[1].totalDistance <= lb[2].totalDistance
       /\ lb[1].totalDistance = lb[2].totalDistance => lb[1].id = "atlas"
       /\ \A k \in 1..2 :
            /\ lb[k].totalDistance = s.agentDistances[lb[k].id]
            /\ lb[k].roundWins = s.roundWins[lb[k].id]

\* a round_results frame whose leaderboard has nova ahead of atlas
C20_Witness ==
  /\ lastEvent = "request_results"
  /\ emitted # <<>>
  /\ emitted[1].type = "round_results"
  /\ emitted[1].leaderboard[1].id = "nova"
  /\ emitted[1].leaderboard[1].totalDistance < emitted[1].leaderboard[2].totalDistance

(***************************************************************************)
(* The client's Connection (public/js/app.js): one page, whose WebSocket    *)
(* opens or fails as the network decides.                                   *)
(***************************************************************************)
\* what a step of the page leaves alone
ClientStep ==
  UNCHANGED <<numRecords, conn, crashed, session, sessions, timers, runs, allocs, asked,
              lastEvent, emitted, roundLog, finalized, peer, call>>

\* connect(): this.ws = new WebSocket(url)
connect(c) == [c EXCEPT !.ws = "connecting", !.connects = @ + 1]

\* the test of _tryReconnect with > for >=
TryReconnectReturnsLate(c) == c.reconnectAttempts > c.maxReconnects

\* if (this.reconnectAttempts >= this.maxReconnects) return;
TryReconnectReturns(c) == c.reconnectAttempts >= c.maxReconnects

\* _tryReconnect()
tryReconnect(c) ==
  IF TryReconnectReturns(c) THEN c
  ELSE [c EXCEPT !.reconnectAttempts = @ + 1,
                 !.timer = Append(@, c.reconnectDelay * (c.reconnectAttempts + 1)),
                 !.scheduled = @ + 1]

\* conn.connect() at the end of the page's initialisation
ClientConnect ==
  /\ client.ws = "null"
  /\ client.connects < MaxConnects
  /\ client' = [connect(client) EXCEPT !.event = "connect"]
  /\ ClientStep

\* this.ws.onopen
ClientOnOpen ==
  /\ client.ws = "connecting"
  /\ client' = [client EXCEPT !.ws = "open",
                              !.reconnectAttempts = 0,
                              !.event = "onopen",
                              !.scheduled = 0,
                              !.failed = 0]
  /\ ClientStep

\* this.ws.onclose, of a socket that was open or that never opened
ClientOnClose ==
  /\ client.ws \in {"connecting", "open"}
  /\ client' = [tryReconnect(client) EXCEPT
                  !.ws = "closed",
                  !.event = "onclose",
                  !.failed = IF client.ws = "connecting" /\ client.scheduled > 0
                             THEN @ + 1 ELSE @]
  /\ ClientStep

\* the callback of setTimeout(() => this.connect(), ...)
ClientReconnect ==
  /\ client.timer # <<>>
  /\ client.connects < MaxConnects
  /\ client' = [connect(client) EXCEPT !.timer = Tail(@), !.event = "reconnect"]
  /\ ClientStep

NextClient == ClientConnect \/ ClientOnOpen \/ ClientOnClose \/ ClientReconnect

SpecClient == Init /\ [][NextClient]_vars

\* C21: the client makes at most 5 consecutive reconnection attempts without a
\* successful open: reconnectAttempts never exceeds 5, every open resets it to
\* 0, the k-th consecutive attempt is scheduled k x 1000 ms ahead, and once
\* the 5th consecutive attempt has failed no connect is scheduled.
C21_ReconnectsAreBounded ==
  /\ client.reconnectAttempts <= 5
  /\ client.scheduled <= 5
  /\ client.event = "onopen" => client.reconnectAttempts = 0
  /\ Len(client.timer) <= 1
  /\ client.timer # <<>> => client.timer[1] = client.scheduled * 1000
  /\ (client.event = "onclose" /\ client.failed < 5) => Len(client.timer) = 1
  /\ client.failed >= 5 => client.timer = <<>>

\* the fifth reconnection in a row has just failed
C21_Witness ==
  /\ client.event = "onclose"
  /\ client.failed = 5
  /\ client.reconnectAttempts = 5
  /\ client.connects = 6

(***************************************************************************)
(* haversineDistance on its own, over a grid of coordinates <<lat, lng>> in *)
(* millidegrees.  The angular separation of two points is known without the *)
(* function when they lie on one meridian or both on the equator.           *)
(***************************************************************************)
Latitudes == {-60000, -45000, -12000, 0, 12000, 45000, 60000}
Longitudes == {-180000, -90000, 0, 90000, 180000}
Coordinates == Latitudes \X Longitudes

Aligned(p, q) == p[2] = q[2] \/ (p[1] = 0 /\ q[1] = 0)

\* degrees between aligned points, in millidegrees
Separation(p, q) ==
  IF p[2] = q[2] THEN Abs(p[1] - q[1])
  ELSE Min(Abs(p[2] - q[2]), 360000 - Abs(p[2] - q[2]))

\* haversineDistance(p, q) and haversineDistance(q, p)
MeasureBothWays ==
  \E p, q \in Coordinates :
    /\ call.op = "none"
    /\ call' = [op |-> "both_ways", p |-> p, q |-> q, r |-> q,
                d |-> <<haversineDistance(p[1], p[2], q[1], q[2]),
                        haversineDistance(q[1], q[2], p[1], p[2])>>]
    /\ UNCHANGED <<numRecords, conn, crashed, session, sessions, timers, runs, allocs,
                   asked, lastEvent, emitted, roundLog, finalized, peer, client>>

\* haversineDistance(p, q) and haversineDistance(p, r), r no nearer to p than q
MeasureAlong ==
  \E p, q, r \in Coordinates :
    /\ call.op = "none"
    /\ Aligned(p, q) /\ Aligned(p, r)
    /\ Separation(p, q) <= Separation(p, r)
    /\ call' = [op |-> "along", p |-> p, q |-> q, r |-> r,
                d |-> <<haversineDistance(p[1], p[2], q[1], q[2]),
                        haversineDistance(p[1], p[2], r[1], r[2])>>]
    /\ UNCHANGED <<numRecords, conn, crashed, session, sessions, timers, runs, allocs,
                   asked, lastEvent, emitted, roundLog, finalized, peer, client>>

NextDistance == MeasureBothWays \/ MeasureAlong

SpecDistance == Init /\ [][NextDistance]_vars

\* C22: the distance is symmetric, d(a, b) = d(b, a) for all coordinate pairs,
\* it is 0 for identical coordinates, and it grows with the angular
\* separation.
C22_DistanceIsAMetric ==
  /\ call.op = "both_ways" =>
       /\ call.d[1] # NaN /\ call.d[2] # NaN
       /\ call.d[1] = call.d[2]
       /\ call.p = call.q => call.d[1] = 0
  /\ call.op = "along" =>
       /\ call.d[1] # NaN /\ call.d[2] # NaN
       /\ call.d[1] <= call.d[2]
       /\ Separation(call.p, call.q) < Separation(call.p, call.r) => call.d[1] < call.d[2]

\* C23: when a round is finalized, the guess scored for each agent is the
\* guess the agent sent in its terminal ai_stream frame of that round, the
\* round of the pending record, and both guesses are there; whatever the
\* interleaving of next_round, request_results and the stream callbacks.
C23_ScoredGuessesAreTheRounds ==
  [][(/\ lastEvent' = "request_results"
      /\ session # Null
      /\ sessions[session].pendingRoundData # Null) =>
       LET roundData == sessions[session].pendingRoundData
           mine == {i \in 1..Len(roundLog) :
                      roundLog[i].sid = session /\ roundLog[i].roundData = roundData}
       IN /\ ~crashed'
          /\ Len(emitted') = 1
          /\ mine # {}
          /\ \A i \in mine, a \in AgentIds :
               /\ a \in DOMAIN roundLog[i].guess
               /\ \E j \in 1..Len(emitted'[1].results) :
                    /\ emitted'[1].results[j].agentId = a
                    /\ emitted'[1].results[j].guess = roundLog[i].guess[a]]_vars

\* C24: from the moment a round starts (round_start sent, currentRound
\* incremented) until an agent of that round finishes, the session's current
\* guesses are empty: no guess of an earlier round can be read.
C24_GuessesEmptyAtRoundStart ==
  (session # Null /\ ~crashed) =>
    \A i \in 1..Len(roundLog) :
      (/\ roundLog[i].sid = session
       /\ roundLog[i].round = sessions[session].currentRound
       /\ DOMAIN roundLog[i].guess = {})
        => DOMAIN sessions[session].currentGuesses = {}

\* C25: once play_again is handled the connection is idle: until a start_game
\* or next_round is received no round_start, ai_stream or analysis_complete
\* frame is sent and the fresh session's round index, guesses and pending
\* payload stay as they are, also when play_again came during a countdown or
\* during the streams of a round.  Stated of the event that follows play_again.
C25_IdleAfterPlayAgain ==
  [][(/\ lastEvent = "play_again"
      /\ lastEvent' \notin {"start_game", "next_round"}) =>
       /\ \A k \in 1..Len(emitted') :
            emitted'[k].type \notin {"round_start", "ai_stream", "analysis_complete"}
       /\ session' # Null =>
            /\ sessions'[session'].currentRound = sessions[session].currentRound
            /\ sessions'[session'].currentGuesses = sessions[session].currentGuesses
            /\ sessions'[session'].pendingRoundData = sessions[session].pendingRoundData]_vars

\* C26: within one round every agent's stream is five non-terminal ai_stream
\* frames carrying its fragments in their order, then one terminal ai_stream
\* frame with guess and confidence; with the terminal frame the agent's timer
\* is stopped and sends nothing more for the round.
C26_StreamIsFiveThenTerminal ==
  [][LET Tick(agent, ms, kind) ==
           LET i == RunOf(ms)
               r == runs[i]
               idx == IF agent = "atlas" THEN r.atlasIdx ELSE r.novaIdx
               done == IF agent = "atlas" THEN r.atlasDone ELSE r.novaDone
               idx2 == IF agent = "atlas" THEN runs'[i].atlasIdx ELSE runs'[i].novaIdx
               pending == {k \in 1..Len(timers'[ms]) :
                             timers'[ms][k].kind = kind /\ timers'[ms][k].run = r.id}
           IN /\ ~done
              /\ idx \in 0..5
              /\ roundLog[i].terminal[agent] = 0
              /\ conn = "open" => Len(emitted') >= 1
              /\ \A k \in 1..Len(emitted') :
                   emitted'[k].type = "ai_stream" => emitted'[k].agent = agent
              /\ IF idx < 5
                 THEN /\ idx2 = idx + 1
                      /\ Cardinality(pending) = 1
                      /\ roundLog'[i].terminal[agent] = 0
                      /\ conn = "open" =>
                           /\ Len(emitted') = 1
                           /\ emitted'[1].type = "ai_stream"
                           /\ emitted'[1].done = FALSE
                           /\ emitted'[1].text[1] = agent
                           /\ emitted'[1].text[3] = idx + 1
                 ELSE /\ idx2 = idx
                      /\ pending = {}
                      /\ conn = "open" =>
                           /\ emitted'[1].type = "ai_stream"
                           /\ emitted'[1].done = TRUE
                           /\ emitted'[1].guess \in AllGuesses
                           /\ emitted'[1].confidence \in 45..89
                           /\ roundLog'[i].terminal[agent] = 1
                           /\ \A k \in 2..Len(emitted') : emitted'[k].type = "analysis_complete"
     IN /\ lastEvent' = "atlasInterval" => Tick("atlas", 450, "atlasInterval")
        /\ lastEvent' = "novaInterval" => Tick("nova", 500, "novaInterval")]_vars

\* both streams of a round have ended on an open connection
C26_Witness ==
  /\ conn = "open"
  /\ lastEvent = "novaInterval"
  /\ \E i \in 1..Len(runs) :
       /\ runs[i].atlasDone /\ runs[i].novaDone
       /\ runs[i].atlasIdx = 5 /\ runs[i].novaIdx = 5
       /\ roundLog[i].terminal = [atlas |-> 1, nova |-> 1]

\* C27: in every round_results frame the round field is the round number that
\* the round_start of the finalized record announced, and isLastRound is true
\* exactly when that number equals totalRounds, which is exactly when a
\* next_round that follows would be ignored.
C27_ResultsNameTheirRound ==
  (lastEvent = "request_results" /\ emitted # <<>>) =>
    LET frame == emitted[1]
        mine == {i \in 1..Len(roundLog) :
                   /\ roundLog[i].sid = session
                   /\ RoundRecord(roundLog[i].roundData).name = frame.locationName}
    IN /\ mine # {}
       /\ \A i \in mine :
            /\ frame.round = roundLog[i].round
            /\ frame.isLastRound <=> (roundLog[i].round = frame.totalRounds)
       /\ frame.isLastRound <=>
            (sessions[session].currentRound >= sessions[session].totalRounds)

\* C28: every accepted next_round (currentRound < totalRounds) increments
\* currentRound by exactly 1 and sends exactly one round_start whose round is
\* the new index, whose totalRounds is the session's and whose photo and
\* locationName are those of the record rounds[new index - 1]; the cumulative
\* distances and the round wins stay as they are.
C28_AcceptedNextRoundStartsNext ==
  [][(/\ lastEvent' = "next_round"
      /\ session # Null
      /\ sessions[session].currentRound < sessions[session].totalRounds) =>
       LET s == sessions[session]
           s2 == sessions'[session']
           new == s.currentRound + 1
       IN /\ ~crashed'
          /\ session' = session
          /\ s2.currentRound = new
          /\ Len(emitted') = 1
          /\ emitted'[1].type = "round_start"
          /\ emitted'[1].round = new
          /\ emitted'[1].totalRounds = s.totalRounds
          /\ emitted'[1].photo = RoundRecord(s.rounds[new]).image_url
          /\ emitted'[1].locationName = RoundRecord(s.rounds[new]).name
          /\ s2.agentDistances = s.agentDistances
          /\ s2.roundWins = s.roundWins
          /\ s2.totalRounds = s.totalRounds
          /\ s2.rounds = s.rounds]_vars

\* the second round of a session was started by next_round
C28_Witness ==
  /\ lastEvent = "next_round"
  /\ session # Null
  /\ sessions[session].currentRound = 2
  /\ emitted # <<>>
  /\ emitted[1].type = "round_start"
  /\ \E k \in 1..Len(finalized) : finalized[k].sid = session

\* C29: show_scoreboard on an existing session, in any lifecycle state, sends
\* exactly one final_scoreboard frame built from the totals as they are and
\* leaves every field of the session (round index, totals, wins, guesses,
\* pending payload) and every running timer as it is.
C29_ScoreboardIsReadOnly ==
  [][(lastEvent' = "show_scoreboard" /\ session # Null) =>
       LET s == sessions[session]
       IN /\ ~crashed'
          /\ Len(emitted') = 1
          /\ emitted'[1].type = "final_scoreboard"
          /\ Len(emitted'[1].leaderboard) = 2
          /\ \A k \in 1..2 :
               LET e == emitted'[1].leaderboard[k]
               IN /\ e.id \in {"atlas", "nova"}
                  /\ e.totalDistance = s.agentDistances[e.id]
                  /\ e.roundWins = s.roundWins[e.id]
          /\ emitted'[1].leaderboard[1].id # emitted'[1].leaderboard[2].id
          /\ session' = session
          /\ sessions' = sessions
          /\ timers' = timers
          /\ runs' = runs]_vars

\* a scoreboard asked for while the streams of a round are running
C29_Witness ==
  /\ lastEvent = "show_scoreboard"
  /\ emitted # <<>>
  /\ session # Null
  /\ timers[450] # <<>>
  /\ timers[500] # <<>>
  /\ \E i \in 1..Len(runs) : runs[i].sid = session /\ runs[i].atlasIdx > 0

(***************************************************************************)
(* A viewer that plays one game in order on a connection that stays open:   *)
(* start_game once, request_results when analysis_complete has come (the    *)
(* payload is pending), next_round when round_results has come and was not  *)
(* the last.  Node runs the callback of every timer that is due, and the    *)
(* viewer sends the frame that is its turn.  RequestDue is the condition    *)
(* under which OrderlyRequest can be taken, so the third conjunct of the    *)
(* fairness is weak fairness of OrderlyRequest written out.                 *)
(***************************************************************************)
OrderlyStart == session = Null /\ StartGame

OrderlyRequest ==
  /\ session # Null
  /\ sessions[session].pendingRoundData # Null
  /\ RequestResults

OrderlyNext ==
  /\ lastEvent = "request_results"
  /\ emitted # <<>>
  /\ ~emitted[1].isLastRound
  /\ NextRound

\* the timer callbacks
TimerStep ==
  CountdownTick \/ CountdownDone \/ SimulateDualAI \/ NovaStart \/ AtlasTick \/ NovaTick

\* the viewer has analysis_complete and the socket is open
RequestDue ==
  /\ wsOpen /\ ~crashed
  /\ session # Null
  /\ sessions[session].pendingRoundData # Null

NextOrderly ==
  \/ OrderlyStart
  \/ CountdownTick
  \/ CountdownDone
  \/ SimulateDualAI
  \/ NovaStart
  \/ AtlasTick
  \/ NovaTick
  \/ OrderlyRequest
  \/ OrderlyNext

SpecOrderly ==
  /\ Init
  /\ [][NextOrderly]_vars
  /\ WF_vars(TimerStep)
  /\ WF_vars(OrderlyNext)
  /\ ([]<>~RequestDue \/ []<><<OrderlyRequest>>_vars)

\* C30: after a start_game on a connection that stays open, with a record
\* available and no other command sent, analysis_complete of round 1 is
\* eventually sent and all the timers of the round stop; and from there, with
\* request_results and next_round sent in turn, a round_results frame with
\* isLastRound true is eventually sent, after exactly totalRounds rounds.
C30_GameRunsToItsLastRound ==
  /\ (lastEvent = "start_game") ~>
       (/\ lastEvent \in {"atlasInterval", "novaInterval"}
        /\ \E k \in 1..Len(emitted) : emitted[k].type = "analysis_complete"
        /\ \E i \in 1..Len(roundLog) : roundLog[i].round = 1 /\ roundLog[i].complete = 1
        /\ \A ms \in Durations : timers[ms] = <<>>)
  /\ (lastEvent = "start_game") ~>
       (/\ lastEvent = "request_results"
        /\ Len(emitted) = 1
        /\ emitted[1].type = "round_results"
        /\ emitted[1].isLastRound
        /\ emitted[1].round = sessions[session].totalRounds
        /\ Len(finalized) = sessions[session].totalRounds
        /\ Len(roundLog) = sessions[session].totalRounds
        /\ \A ms \in Durations : timers[ms] = <<>>)

\* the last round_results frame of a game of two rounds
C30_Witness ==
  /\ lastEvent = "request_results"
  /\ emitted # <<>>
  /\ emitted[1].isLastRound
  /\ emitted[1].round = 2
  /\ Len(finalized) = 2
  /\ \A ms \in Durations : timers[ms] = <<>>

\* C31: the results array of every round_results frame lists both agents by
\* ascending rounded distance of this round, atlas before nova when the two
\* distances are equal, and each entry's distance is the amount by which that
\* agent's cumulative distance grew in the finalization.
C31_ResultsOrder ==
  [][(lastEvent' = "request_results" /\ emitted' # <<>>) =>
       LET results == emitted'[1].results
       IN /\ emitted'[1].type = "round_results"
          /\ Len(results) = 2
          /\ {results[1].agentId, results[2].agentId} = {"atlas", "nova"}
          /\ results[1].distance <= results[2].distance
          /\ results[1].distance = results[2].distance => results[1].agentId = "atlas"
          /\ \A k \in 1..2 :
               /\ results[k].distance # NaN
               /\ sessions'[session].agentDistances[results[k].agentId]
                    = sessions[session].agentDistances[results[k].agentId]
                        + results[k].distance]_vars

\* a round_results frame that lists nova first, strictly closer than atlas, in
\* a session whose other finalized round was tied
C31_Witness ==
  /\ lastEvent = "request_results"
  /\ emitted # <<>>
  /\ emitted[1].type = "round_results"
  /\ emitted[1].results[1].agentId = "nova"
  /\ emitted[1].results[1].distance < emitted[1].results[2].distance
  /\ \E k \in 1..Len(finalized) :
       /\ finalized[k].sid = session
       /\ finalized[k].distance["atlas"] = finalized[k].distance["nova"]

(***************************************************************************)
(* makeAIGuess on its own: every location of a grid that reaches the poles  *)
(* and the date line, both agents, and every draw of Math.random() in       *)
(* tenths, 0 included and 1 excluded as in [0, 1).                          *)
(***************************************************************************)
TrueLatitudes == {-90000, -85000, -84000, -40000, 0, 48857, 84000, 85000, 90000}
TrueLongitudes == {-180000, -179000, 0, 2352, 179000, 180000}
Tenths == 0..9

\* min + Math.random() * (max - min), millidegrees
Spread(agentId, draw) ==
  1000 * AGENTS[agentId].spreadRange[1]
    + 100 * draw[1] * (AGENTS[agentId].spreadRange[2] - AGENTS[agentId].spreadRange[1])

\* makeAIGuess(actual, agentId)
MakeGuess ==
  /\ call.op = "none"
  /\ \E lat \in TrueLatitudes, lng \in TrueLongitudes, agentId \in AgentIds,
        d1, d2, d3 \in Tenths :
       call' = [op |-> "makeAIGuess",
                actual |-> [lat |-> lat, lng |-> lng],
                agentId |-> agentId,
                draw |-> <<d1, d2, d3, 0>>,
                guess |-> makeAIGuess([lat |-> lat, lng |-> lng], agentId, <<d1, d2, d3, 0>>)]
  /\ UNCHANGED <<numRecords, conn, crashed, session, sessions, timers, runs, allocs,
                 asked, lastEvent, emitted, roundLog, finalized, peer, client>>

NextGuess == MakeGuess

SpecGuess == Init /\ [][NextGuess]_vars

\* C32: every guess made for an agent has its latitude within [-85, 85],
\* whatever the true coordinate and the random offsets within the agent's
\* spread range; its longitude is the true longitude plus an offset of at
\* most 1.5 x spread / 2 in absolute value, and is not clamped.
C32_LatitudeClampedLongitudeFree ==
  call.op = "makeAIGuess" =>
    LET spread == Spread(call.agentId, call.draw)
        raw == call.actual.lat + ((call.draw[2] - 5) * spread) \div 10
    IN /\ 1000 * AGENTS[call.agentId].spreadRange[1] <= spread
       /\ spread < 1000 * AGENTS[call.agentId].spreadRange[2]
       /\ -MaxLat <= call.guess.lat /\ call.guess.lat <= MaxLat
       /\ (-MaxLat <= raw /\ raw <= MaxLat) => call.guess.lat = raw
       /\ 4 * Abs(call.guess.lng - call.actual.lng) <= 3 * spread
       /\ call.guess.lng - call.actual.lng = ((call.draw[3] - 5) * spread * 15) \div 100

\* a guess whose latitude was cut back to 85 and whose longitude lies west of
\* -180, off the true longitude by the largest offset the spread allows
C32_Witness ==
  /\ call.op = "makeAIGuess"
  /\ call.actual.lat + ((call.draw[2] - 5) * Spread(call.agentId, call.draw)) \div 10 > MaxLat
  /\ call.guess.lat = MaxLat
  /\ call.actual.lng - call.guess.lng > 0
  /\ 4 * (call.actual.lng - call.guess.lng) = 3 * Spread(call.agentId, call.draw)
  /\ call.guess.lng < -180000

=============================================================================
